---------------------------- MODULE Spec2Model ----------------------------
(***************************************************************************)
(* pip-compile-multi: relation graph utilities (utils.py), the package     *)
(* deduplicator (deduplicate.py) and the lock file fixing of an            *)
(* environment (environment.py).                                           *)
(*                                                                         *)
(* Python values are modelled as follows.  A dict is a function with a     *)
(* finite domain, a list is a sequence, a set is a set.  None as a package *)
(* version is the string NoneV; a deduplicator whose env_confs is None has *)
(* env_confs.discovered = FALSE.  The iteration order of a Python set of   *)
(* strings depends on the hash seed of the run, so every loop over a set   *)
(* takes its order from a nondeterministic choice among all the orders.    *)
(***************************************************************************)
EXTENDS Integers, Sequences, FiniteSets, TLC

\* Environment names.  "refs" and "cons" are ordinary file names
\* (refs.in, cons.in); they are also the keys of the dict that
\* recursive_relations returns.
Names == {"refs", "cons", "base", "test"}

\* Largest number of relation edges (-r / -c lines) in a discovered graph.
MaxEdges == 4

\* utils.py:9
relation_keys == <<"cons", "refs">>

----------------------------------------------------------------------------
\* Generic helpers

Range(s) == {s[i] : i \in DOMAIN s}

\* All the orders in which a loop can iterate over the set S.
Orders(S) == {s \in [1..Cardinality(S) -> S] : Range(s) = S}

RECURSIVE SubsetsUpTo(_, _)
SubsetsUpTo(S, k) ==
    IF k = 0 THEN {{}}
    ELSE LET smaller == SubsetsUpTo(S, k - 1)
         IN  smaller \cup {E \cup {e} : E \in smaller, e \in S}

----------------------------------------------------------------------------
\* Relation graphs: env_confs, a list of {'name', 'refs', 'cons'} dicts, as
\* a function from the environment name to its direct relations.  An
\* environment does not relate to itself, and every related name is declared.

EdgeUniverse ==
    {<<n, k, m>> : n \in Names, k \in {"refs", "cons"}, m \in Names} \
    {<<n, k, n>> : n \in Names, k \in {"refs", "cons"}}

GraphOf(E) ==
    [n \in Names |-> [refs |-> {m \in Names : <<n, "refs", m>> \in E},
                      cons |-> {m \in Names : <<n, "cons", m>> \in E}]]

Graphs(k) == {GraphOf(E) : E \in SubsetsUpTo(EdgeUniverse, k)}

EmptyGraph == GraphOf({})

----------------------------------------------------------------------------
\* recursive_relations (utils.py:29-59)

\* Variant of RRStart that forgets to mark the starting name as visited
\* (line 45 left out).
RRStartUnvisited(starting) ==
    [all   |-> {},
     refs  |-> {},
     cons  |-> {},
     queue |-> <<starting>>,
     enq   |-> [n \in Names |-> IF n = starting THEN 1 ELSE 0],
     deq   |-> [n \in Names |-> 0]]

\* lines 41-46: the visited sets and the queue holding the starting name.
\* enq and deq count how often each name was appended to and popped from
\* the queue (history only, the code does not keep them).
RRStart(starting) ==
    [all   |-> {starting},
     refs  |-> {},
     cons  |-> {},
     queue |-> <<starting>>,
     enq   |-> [n \in Names |-> IF n = starting THEN 1 ELSE 0],
     deq   |-> [n \in Names |-> 0]]

\* line 51
Target(is_refs, key) == IF is_refs /\ key = "refs" THEN "refs" ELSE "cons"

\* Variant of VisitRelation without the visited test of line 53.
VisitRelationNoCheck(v, target, relation) ==
    [v EXCEPT !.all = @ \cup {relation},
              ![target] = @ \cup {relation},
              !.queue = Append(@, relation),
              !.enq[relation] = @ + 1]

\* lines 53-56
VisitRelation(v, target, relation) ==
    IF relation \notin v.all
    THEN [v EXCEPT !.all = @ \cup {relation},
                   ![target] = @ \cup {relation},
                   !.queue = Append(@, relation),
                   !.enq[relation] = @ + 1]
    ELSE v

\* line 52: the loop over one relation set, in the order it iterates
RECURSIVE VisitRelations(_, _, _)
VisitRelations(v, target, order) ==
    IF order = <<>> THEN v
    ELSE VisitRelations(VisitRelation(v, target, Head(order)), target, Tail(order))

\* line 49
IsRefs(v, starting, name) == name = starting \/ name \in v.refs

\* line 50: the loop over relation_keys; orders[key] is the iteration order
\* of rels_by_name[name][key]
RECURSIVE VisitKeys(_, _, _, _)
VisitKeys(v, is_refs, orders, i) ==
    IF i > Len(relation_keys) THEN v
    ELSE LET key == relation_keys[i]
         IN  VisitKeys(VisitRelations(v, Target(is_refs, key), orders[key]),
                       is_refs, orders, i + 1)

\* Variant of Dequeue that follows only the refs of the starting name, so
\* that the refs found, not the starting name, are the frontier.
DequeueSkipStartCons(v, starting, orders) ==
    LET name == Head(v.queue)
        popped == [v EXCEPT !.queue = Tail(@), !.deq[name] = @ + 1]
    IN  IF name = starting
        THEN VisitRelations(popped, "refs", orders["refs"])
        ELSE VisitKeys(popped, IsRefs(v, starting, name), orders, 1)

\* lines 48-56: one iteration of the while loop
Dequeue(v, starting, orders) ==
    LET name == Head(v.queue)
        popped == [v EXCEPT !.queue = Tail(@), !.deq[name] = @ + 1]
    IN  VisitKeys(popped, IsRefs(v, starting, name), orders, 1)

\* The iteration orders the loop on line 52 can take for the relations of name
KeyOrders(envs, name) ==
    {[cons |-> oc, refs |-> orf] :
        oc \in Orders(envs[name].cons), orf \in Orders(envs[name].refs)}

\* lines 57-59
RRReturn(v) == [refs |-> v.refs, cons |-> v.cons \ v.refs]

\* Every value recursive_relations(envs, starting) can return, over the
\* iteration orders of the relation sets.
RECURSIVE RRRun(_, _, _)
RRRun(envs, starting, v) ==
    IF v.queue = <<>> THEN {RRReturn(v)}
    ELSE UNION {RRRun(envs, starting, Dequeue(v, starting, o)) :
                    o \in KeyOrders(envs, Head(v.queue))}

recursive_relations(envs, starting) == RRRun(envs, starting, RRStart(starting))

----------------------------------------------------------------------------
\* relation_cluster (utils.py:100-133)

\* The order of the list env_confs.  The names are interchangeable and the
\* graphs range over all edge sets, so one list order stands for all.
NameSeq == <<"base", "cons", "refs", "test">>

EdgeSeq(n, order) == [i \in DOMAIN order |-> {n, order[i]}]

\* lines 116-117 for one env: its edges, key by key
RECURSIVE EnvEdges(_, _, _)
EnvEdges(n, orders, i) ==
    IF i > Len(relation_keys) THEN <<>>
    ELSE EdgeSeq(n, orders[relation_keys[i]]) \o EnvEdges(n, orders, i + 1)

\* lines 113-118: every list the comprehension can build, over the
\* iteration orders of the relation sets
RECURSIVE EdgeLists(_, _)
EdgeLists(envs, i) ==
    IF i > Len(NameSeq) THEN {<<>>}
    ELSE {EnvEdges(NameSeq[i], o, 1) \o rest :
            o \in KeyOrders(envs, NameSeq[i]), rest \in EdgeLists(envs, i + 1)}

\* lines 123-131: one pass over the edges left
RECURSIVE PassEdges(_, _, _)
PassEdges(cluster, edges, to_visit) ==
    IF edges = <<>> THEN [cluster |-> cluster, edges |-> to_visit]
    ELSE LET edge == Head(edges)
         IN  IF cluster \cap edge # {}
             THEN PassEdges(cluster \cup edge, Tail(edges), to_visit)
             ELSE PassEdges(cluster, Tail(edges), Append(to_visit, edge))

\* Variant of ClusterGrows that stops after the first pass.
ClusterGrowsFirstPassOnly(prev, cluster) == prev = {}

\* line 120: the loop condition
ClusterGrows(prev, cluster) == prev # cluster

\* lines 119-133
RECURSIVE ClusterLoop(_, _, _)
ClusterLoop(prev, cluster, edges) ==
    IF ClusterGrows(prev, cluster)
    THEN LET pass == PassEdges(cluster, edges, <<>>)
         IN  ClusterLoop(cluster, pass.cluster, pass.edges)
    ELSE cluster

relation_cluster(edges, name) == ClusterLoop({}, {name}, edges)

----------------------------------------------------------------------------
\* Package maps: a dict from package name to version, the version a string
\* or None

Packages == {"x", "y"}
Versions == {"1", "2"}
NoneV == "None"

EmptyMap == [p \in {} |-> NoneV]

\* A lock file holds each package once, so a package map is any function
\* from some of the packages to a version or None.
PackageMaps ==
    UNION {[D -> Versions \cup {NoneV}] : D \in SUBSET Packages}

\* d[k] = val
MapPut(d, k, val) == [p \in DOMAIN d \cup {k} |-> IF p = k THEN val ELSE d[p]]

\* The interpreters the package runs under.  They differ in how None
\* compares with a string: Python 2 orders None before every string,
\* Python 3 raises TypeError.
PythonVersions == {2, 3}

\* The strings of the model in the order Python compares them
StringOrder == <<"1", "2", "x", "y">>

StrIndex(str) == CHOOSE i \in DOMAIN StringOrder : StringOrder[i] = str

StrLess(a, b) == StrIndex(a) < StrIndex(b)

\* (name, version) < (name, version) where no TypeError is raised
ItemLess(a, b) ==
    IF a[1] # b[1] THEN StrLess(a[1], b[1])
    ELSE IF a[2] = b[2] THEN FALSE
    ELSE IF a[2] = NoneV THEN TRUE
    ELSE IF b[2] = NoneV THEN FALSE
    ELSE StrLess(a[2], b[2])

\* Comparing the two items compares None with a string
Unorderable(a, b) == a[1] = b[1] /\ a[2] # b[2] /\ NoneV \in {a[2], b[2]}

RECURSIVE InsertItem(_, _)
InsertItem(item, sorted) ==
    IF sorted = <<>> THEN <<item>>
    ELSE IF ItemLess(item, Head(sorted)) THEN <<item>> \o sorted
    ELSE <<Head(sorted)>> \o InsertItem(item, Tail(sorted))

RECURSIVE SortItems(_)
SortItems(items) ==
    IF items = <<>> THEN <<>>
    ELSE InsertItem(Head(items), SortItems(Tail(items)))

\* sorted(...) of utils.py:75.  Two items that sort next to each other are
\* compared, so under Python 3 the call raises TypeError as soon as one
\* package comes with None and with a string.
Sorted(python, items) ==
    IF python = 3 /\ \E i, j \in DOMAIN items : Unorderable(items[i], items[j])
    THEN [raised |-> TRUE, list |-> <<>>]
    ELSE [raised |-> FALSE, list |-> SortItems(items)]

\* dict.items() of one package map
RECURSIVE MapItems(_, _)
MapItems(d, i) ==
    IF i > Len(StringOrder) THEN <<>>
    ELSE (IF StringOrder[i] \in DOMAIN d
          THEN <<<<StringOrder[i], d[StringOrder[i]]>>>> ELSE <<>>)
         \o MapItems(d, i + 1)

\* lines 75-78: the chained items of the named environments
RECURSIVE ChainItems(_, _)
ChainItems(env_packages, names) ==
    IF names = <<>> THEN <<>>
    ELSE MapItems(env_packages[Head(names)], 1)
         \o ChainItems(env_packages, Tail(names))

\* lines 81-86: the loop over the combined packages
RECURSIVE MergeLoop(_, _, _)
MergeLoop(combined, result, errors) ==
    IF combined = <<>> THEN [result |-> result, errors |-> errors]
    ELSE LET name == Head(combined)[1]
             version == Head(combined)[2]
         IN  IF name \in DOMAIN result
             THEN IF result[name] # version
                  THEN MergeLoop(Tail(combined), result,
                                 errors \cup {<<name, version, result[name]>>})
                  ELSE MergeLoop(Tail(combined), result, errors)
             ELSE MergeLoop(Tail(combined), MapPut(result, name, version), errors)

Raised(kind, errors) == [kind |-> kind, result |-> EmptyMap, errors |-> errors]

\* merged_packages (utils.py:62-97): the dict returned, or the exception
\* raised with the conflicts logged before it
merged_packages(python, env_packages, names) ==
    IF \E i \in DOMAIN names : names[i] \notin DOMAIN env_packages
    THEN Raised("KeyError", {})
    ELSE LET combined == Sorted(python, ChainItems(env_packages, names))
             merged == MergeLoop(combined.list, EmptyMap, {})
         IN  IF combined.raised THEN Raised("TypeError", {})
             ELSE IF merged.errors # {} THEN Raised("RuntimeError", merged.errors)
             ELSE [kind |-> "ok", result |-> merged.result, errors |-> {}]

----------------------------------------------------------------------------
\* PackageDeduplicator (deduplicate.py:14-58)
\*
\* deduplicate.py:6-8 also imports recursive_cons and recursive_refs, which
\* utils.py does not define; the methods that only forward to them
\* (deduplicate.py:48-58) are left out.

\* Iterating over a dict yields its keys, in insertion order.  For the dict
\* recursive_relations returns these are 'refs' and 'cons' (utils.py:42,
\* 'all' popped on line 58).
DictIter(d) == SelectSeq(<<"all", "refs", "cons">>, LAMBDA k : k \in DOMAIN d)

\* deduplicate.py:30-37, for one value of recursive_relations: the relations
\* dict itself is handed to merged_packages as the names to merge
ignored_packages(python, env_confs, env_packages, relations) ==
    IF ~env_confs.discovered
    THEN [kind |-> "ok", result |-> EmptyMap, errors |-> {}]
    ELSE merged_packages(python, env_packages, DictIter(relations))

\* deduplicate.py:42-46, for one value of recursive_relations
need_recompile(env_confs, recompiled, relations) ==
    IF ~env_confs.discovered THEN TRUE
    ELSE \E i \in DOMAIN DictIter(relations) : DictIter(relations)[i] \in recompiled

\* The values recursive_relations(self.env_confs, env_name) can take
Relations(env_confs, env_name) == recursive_relations(env_confs.envs, env_name)

----------------------------------------------------------------------------
\* Environment (environment.py)

\* Largest number of requirement lines in a lock file
MaxLines == 2

AddConstraints == "Please add constraints for the package version listed above"
FailedToCompile == "Failed to pip-compile"

\* A line of the lock file as Dependency parses it: a pinned package
\* (valid), with version None when the line carries none, or any other line
CommentLine == [valid |-> FALSE, package |-> "", version |-> NoneV]

DepLine(p, ver) == [valid |-> TRUE, package |-> p, version |-> ver]

\* pip-compile lists each package once, sorted by name; the file starts
\* with a line that is no requirement
RECURSIVE DepLines(_, _)
DepLines(d, i) ==
    IF i > Len(StringOrder) THEN <<>>
    ELSE (IF StringOrder[i] \in DOMAIN d
          THEN <<DepLine(StringOrder[i], d[StringOrder[i]])>> ELSE <<>>)
         \o DepLines(d, i + 1)

LockFiles ==
    LET pinned == UNION {[D -> Versions \cup {NoneV}] :
                         D \in {D \in SUBSET Packages : Cardinality(D) <= MaxLines}}
    IN  {<<CommentLine>> \o DepLines(d, 1) : d \in pinned}

\* Variant of fix_pin that drops an ignored package without comparing the
\* versions (lines 190-201 left out).
FixPinNoConflictCheck(ignore, packages, line) ==
    IF line.valid
    THEN IF line.package \in DOMAIN ignore
         THEN [raised |-> FALSE, keep |-> FALSE, packages |-> packages]
         ELSE [raised |-> FALSE, keep |-> TRUE,
               packages |-> MapPut(packages, line.package, line.version)]
    ELSE [raised |-> FALSE, keep |-> TRUE, packages |-> packages]

\* fix_pin (environment.py:178-206) on one line: whether it raises, whether
\* the line is kept in the output, and self.packages after it.  A line
\* without a version has version None.
fix_pin(ignore, packages, line) ==
    IF line.valid
    THEN IF line.package \in DOMAIN ignore
         THEN LET ignored_version == ignore[line.package]
              IN  IF /\ ignored_version # NoneV
                     /\ line.version # NoneV
                     /\ line.version # ignored_version
                  THEN [raised |-> TRUE, keep |-> FALSE, packages |-> packages]
                  ELSE [raised |-> FALSE, keep |-> FALSE, packages |-> packages]
         ELSE [raised |-> FALSE, keep |-> TRUE,
               packages |-> MapPut(packages, line.package, line.version)]
    ELSE [raised |-> FALSE, keep |-> TRUE, packages |-> packages]

\* environment.py:149-153: the lines of outfile run through fix_pin, up to
\* the first that raises
RECURSIVE FixLines(_, _, _, _)
FixLines(ignore, packages, lines, kept) ==
    IF lines = <<>> THEN [raised |-> FALSE, kept |-> kept, packages |-> packages]
    ELSE LET fixed == fix_pin(ignore, packages, Head(lines))
         IN  IF fixed.raised
             THEN [raised |-> TRUE, kept |-> kept, packages |-> fixed.packages]
             ELSE FixLines(ignore, fixed.packages, Tail(lines),
                           IF fixed.keep THEN Append(kept, Head(lines)) ELSE kept)

----------------------------------------------------------------------------
VARIABLES
    rr,     \* the frame of a call of recursive_relations
    rc,     \* the frame of a call of relation_cluster
    mp,     \* the frame of a call of merged_packages
    python, \* the major version of the interpreter
    env_confs,        \* PackageDeduplicator.env_confs
    env_packages,     \* PackageDeduplicator.env_packages
    recompiled_envs,  \* PackageDeduplicator._recompiled_envs
    env,    \* the Environment object being locked
    out     \* what the last call returned or raised

vars == <<rr, rc, mp, python, env_confs, env_packages, recompiled_envs, env, out>>

utilVars == <<rr, rc, mp>>

dedupVars == <<env_confs, env_packages, recompiled_envs, env, out>>

NoMerge == [kind |-> "none", result |-> EmptyMap, errors |-> {}]

\* deduplicate.py:17-20
NewDeduplicator ==
    /\ env_confs = [discovered |-> FALSE, envs |-> EmptyGraph]
    /\ env_packages = EmptyMap
    /\ recompiled_envs = {}

NoEnv == [alive |-> FALSE, name |-> "", ignore |-> EmptyMap, packages |-> EmptyMap]

Out(op, name) ==
    [op |-> op, name |-> name, error |-> "", value |-> FALSE,
     ignored |-> NoMerge, lines |-> <<>>, written |-> <<>>]

DedupIdle == NewDeduplicator /\ env = NoEnv /\ out = Out("", "")

MPIdle ==
    [pc |-> "idle", env_packages |-> EmptyMap, names |-> <<>>,
     ret |-> Raised("none", {})]

RRIdle ==
    [pc |-> "idle", envs |-> EmptyGraph, starting |-> "base",
     v |-> RRStart("base"), ret |-> [refs |-> {}, cons |-> {}]]

RCIdle ==
    [pc |-> "idle", envs |-> EmptyGraph, name |-> "base", edges |-> <<>>,
     prev |-> {}, cluster |-> {}, rounds |-> 0, ret |-> {}]


\* A call recursive_relations(envs, starting), one loop iteration per step,
\* on a graph of at most k edges.
RelInitOf(k) ==
    /\ DedupIdle
    /\ rc = RCIdle
    /\ mp = MPIdle
    /\ python = 3
    /\ rr \in {[pc |-> "call", envs |-> g, starting |-> s,
             v |-> RRStart(s), ret |-> [refs |-> {}, cons |-> {}]] :
                g \in Graphs(k), s \in Names}

RelInit == RelInitOf(MaxEdges)

RRCall ==
    /\ rr.pc = "call"
    /\ rr' = [rr EXCEPT !.pc = "loop", !.v = RRStart(rr.starting)]
    /\ UNCHANGED <<rc, mp, python, dedupVars>>

RRLoop ==
    /\ rr.pc = "loop"
    /\ rr.v.queue # <<>>
    /\ \E o \in KeyOrders(rr.envs, Head(rr.v.queue)) :
          rr' = [rr EXCEPT !.v = Dequeue(rr.v, rr.starting, o)]
    /\ UNCHANGED <<rc, mp, python, dedupVars>>

RRDone ==
    /\ rr.pc = "loop"
    /\ rr.v.queue = <<>>
    /\ rr' = [rr EXCEPT !.pc = "done", !.ret = RRReturn(rr.v)]
    /\ UNCHANGED <<rc, mp, python, dedupVars>>

RelNext == RRCall \/ RRLoop \/ RRDone

SpecRel == RelInit /\ [][RelNext]_vars

\* Largest number of relation edges in the graphs of the fair runs
MaxLiveEdges == 3

LiveInit == RelInitOf(MaxLiveEdges)

\* The call runs to its return: the interpreter keeps executing the loop.
FairSpecRel == LiveInit /\ [][RelNext]_vars /\ WF_vars(RelNext)

----------------------------------------------------------------------------
\* A call relation_cluster(envs, name), one pass of the while loop per step.
\* rounds counts the passes (history only).
ClusterInit ==
    /\ DedupIdle
    /\ rr = RRIdle
    /\ mp = MPIdle
    /\ python = 3
    /\ rc \in {[pc |-> "call", envs |-> g, name |-> n, edges |-> el,
                prev |-> {}, cluster |-> {}, rounds |-> 0, ret |-> {}] :
                    g \in Graphs(MaxEdges), n \in Names, el \in {<<>>}}

\* lines 113-119
RCCall ==
    /\ rc.pc = "call"
    /\ \E el \in EdgeLists(rc.envs, 1) :
          rc' = [rc EXCEPT !.pc = "loop", !.edges = el,
                           !.prev = {}, !.cluster = {rc.name}]
    /\ UNCHANGED <<rr, mp, python, dedupVars>>

\* lines 120-132
RCLoop ==
    /\ rc.pc = "loop"
    /\ ClusterGrows(rc.prev, rc.cluster)
    /\ LET pass == PassEdges(rc.cluster, rc.edges, <<>>)
       IN  rc' = [rc EXCEPT !.prev = rc.cluster, !.cluster = pass.cluster,
                            !.edges = pass.edges, !.rounds = @ + 1]
    /\ UNCHANGED <<rr, mp, python, dedupVars>>

\* line 133
RCDone ==
    /\ rc.pc = "loop"
    /\ ~ClusterGrows(rc.prev, rc.cluster)
    /\ rc' = [rc EXCEPT !.pc = "done", !.ret = rc.cluster]
    /\ UNCHANGED <<rr, mp, python, dedupVars>>

ClusterNext == RCCall \/ RCLoop \/ RCDone

SpecCluster == ClusterInit /\ [][ClusterNext]_vars

----------------------------------------------------------------------------
\* A call merged_packages(env_packages, names) on a store of registered
\* package maps and a list of registered names.

MergeEnvs == {"base", "cons", "refs"}

Stores == UNION {[D -> PackageMaps] : D \in SUBSET MergeEnvs}

MergeInit ==
    /\ DedupIdle
    /\ rr = RRIdle
    /\ rc = RCIdle
    /\ python \in PythonVersions
    /\ mp \in {[pc |-> "call", env_packages |-> st, names |-> ns,
                ret |-> Raised("none", {})] :
                    st \in {x \in Stores : DOMAIN x = MergeEnvs},
                    ns \in UNION {Orders(D) : D \in SUBSET MergeEnvs}}

MPCall ==
    /\ mp.pc = "call"
    /\ mp' = [mp EXCEPT !.pc = "done",
                        !.ret = merged_packages(python, mp.env_packages, mp.names)]
    /\ UNCHANGED <<rr, rc, python, dedupVars>>

MergeNext == MPCall

SpecMerge == MergeInit /\ [][MergeNext]_vars

----------------------------------------------------------------------------
\* The deduplicator of a run and the environments locked against it.  The
\* calls come in any order; the environments locked are ProcNames, under the
\* relations of one of ConfGraphs.

ProcNames == {"refs", "cons", "base"}

ConfGraphs ==
    {GraphOf({<<"base", "refs", "refs">>}),
     GraphOf({<<"base", "refs", "refs">>, <<"base", "cons", "cons">>}),
     GraphOf({<<"base", "refs", "cons">>, <<"cons", "refs", "refs">>})}

UtilIdle == rr = RRIdle /\ rc = RCIdle /\ mp = MPIdle

Init ==
    /\ UtilIdle
    /\ python \in PythonVersions
    /\ DedupIdle

\* deduplicate.py:22-24; the driver discovers the environments once
OnDiscover(graphs) ==
    /\ ~env_confs.discovered
    /\ \E g \in graphs : env_confs' = [discovered |-> TRUE, envs |-> g]
    /\ out' = Out("on_discover", "")
    /\ UNCHANGED <<utilVars, python, env_packages, recompiled_envs, env>>

\* deduplicate.py:26-28
register_packages_for_env(packages_by_env, env_name, packages) ==
    MapPut(packages_by_env, env_name, packages)

\* Environment.__init__ (environment.py:23-34): the object exists unless
\* ignored_packages raises.  The driver locks an environment until its
\* packages are registered, not again after that.
NewEnvironment ==
    /\ \E name \in ProcNames \ DOMAIN env_packages :
       \E relations \in Relations(env_confs, name) :
          LET ignored == ignored_packages(python, env_confs, env_packages, relations)
          IN  /\ env' = IF ignored.kind = "ok"
                        THEN [alive |-> TRUE, name |-> name,
                              ignore |-> ignored.result, packages |-> EmptyMap]
                        ELSE NoEnv
              /\ out' = [Out("Environment", name) EXCEPT
                            !.error = IF ignored.kind = "ok" THEN ""
                                      ELSE IF ignored.kind = "RuntimeError"
                                           THEN AddConstraints
                                      ELSE ignored.kind,
                            !.ignored = ignored]
    /\ UNCHANGED <<utilVars, python, env_confs, env_packages, recompiled_envs>>

\* fix_lockfile (environment.py:147-160) over the lines read from outfile.
\* An Environment is locked once: maybe_create_lockfile compiles or fixes.
fix_lockfile(op, lines) ==
    LET fixed == FixLines(env.ignore, env.packages, lines, <<>>)
    IN  /\ env' = [env EXCEPT !.alive = FALSE, !.packages = fixed.packages]
        /\ out' = [Out(op, env.name) EXCEPT
                      !.error = IF fixed.raised THEN AddConstraints ELSE "",
                      !.lines = lines,
                      !.written = IF fixed.raised THEN <<>> ELSE fixed.kept]
        /\ env_packages' =
              IF fixed.raised THEN env_packages
              ELSE register_packages_for_env(env_packages, env.name, fixed.packages)

FixLockfile ==
    /\ env.alive
    /\ \E lines \in LockFiles : fix_lockfile("fix_lockfile", lines)
    /\ UNCHANGED <<utilVars, python, env_confs, recompiled_envs>>

\* create_lockfile (environment.py:69-89): pip-compile writes outfile and
\* exits with returncode
CreateLockfile ==
    /\ env.alive
    /\ \E returncode \in {0, 1} :
          IF returncode = 0
          THEN \E lines \in LockFiles : fix_lockfile("fix_lockfile", lines)
          ELSE /\ env' = [env EXCEPT !.alive = FALSE]
               /\ out' = [Out("create_lockfile", env.name) EXCEPT
                             !.error = FailedToCompile]
               /\ UNCHANGED env_packages
    /\ UNCHANGED <<utilVars, python, env_confs, recompiled_envs>>

\* maybe_create_lockfile (environment.py:36-61): line 43 calls
\* self._dedup.recursive_relations, which PackageDeduplicator does not have
MaybeCreateLockfile ==
    /\ env.alive
    /\ env' = [env EXCEPT !.alive = FALSE]
    /\ out' = [Out("maybe_create_lockfile", env.name) EXCEPT
                  !.error = "AttributeError"]
    /\ UNCHANGED <<utilVars, python, env_confs, env_packages, recompiled_envs>>

Next ==
    \/ OnDiscover(ConfGraphs)
    \/ NewEnvironment
    \/ FixLockfile
    \/ CreateLockfile
    \/ MaybeCreateLockfile

Spec == Init /\ [][Next]_vars

----------------------------------------------------------------------------
\* The deduplicator alone: discovery, marking and the recompile decision

\* Largest number of relation edges in the graphs tried for the decision
MaxConfEdges == 2

DedupInit ==
    /\ UtilIdle
    /\ python = 3
    /\ DedupIdle

\* deduplicate.py:39-40
MarkRecompiled ==
    /\ \E name \in Names : recompiled_envs' = recompiled_envs \cup {name}
    /\ out' = Out("mark_recompiled", "")
    /\ UNCHANGED <<utilVars, python, env_confs, env_packages, env>>

\* deduplicate.py:42-46
NeedRecompile ==
    /\ \E name \in Names : \E relations \in Relations(env_confs, name) :
          out' = [Out("need_recompile", name) EXCEPT
                     !.value = need_recompile(env_confs, recompiled_envs, relations)]
    /\ UNCHANGED <<utilVars, python, env_confs, env_packages, recompiled_envs, env>>

DedupNext ==
    \/ OnDiscover(Graphs(MaxConfEdges))
    \/ MarkRecompiled
    \/ NeedRecompile

SpecDedup == DedupInit /\ [][DedupNext]_vars

----------------------------------------------------------------------------
\* Graph closures, used to state the properties of recursive_relations

Succ(envs, keys, S) == UNION {envs[n][k] : n \in S, k \in keys}

RECURSIVE Closure(_, _, _)
Closure(envs, keys, S) ==
    LET T == S \cup Succ(envs, keys, S)
    IN  IF T = S THEN S ELSE Closure(envs, keys, T)

\* The names reachable from n by one or more edges of the given kinds
ReachableFrom(envs, keys, n) == Closure(envs, keys, Succ(envs, keys, {n}))

BothKeys == {"refs", "cons"}

OnCycle(envs, n) == n \in ReachableFrom(envs, BothKeys, n)

Acyclic(envs) == \A n \in Names : ~OnCycle(envs, n)

\* C2: on an acyclic graph the returned refs are exactly the names reachable
\* from the starting name over refs edges alone, the starting name excluded.
C2_RefsIsRefsClosure ==
    (rr.pc = "done" /\ Acyclic(rr.envs)) =>
        rr.ret.refs = ReachableFrom(rr.envs, {"refs"}, rr.starting) \ {rr.starting}

\* C7 as claimed: the returned cons are the names reachable over both edge
\* kinds from the members of the returned refs, minus refs, minus the
\* starting name.
C7_ConsFromRefsFrontier ==
    rr.pc = "done" =>
        rr.ret.cons =
            (Closure(rr.envs, BothKeys, rr.ret.refs) \ rr.ret.refs) \ {rr.starting}

\* C7 amended: the returned cons are the names reachable over both edge
\* kinds from the starting name itself, minus the returned refs, minus the
\* starting name.
C7_ConsFromStart ==
    rr.pc = "done" =>
        rr.ret.cons =
            (ReachableFrom(rr.envs, BothKeys, rr.starting) \ rr.ret.refs)
                \ {rr.starting}

\* The starting name has a constraint of its own that none of its references
\* leads to, and references as well.
C7_Witness ==
    /\ rr.pc = "done"
    /\ rr.ret.refs # {}
    /\ rr.envs[rr.starting].cons \ Closure(rr.envs, BothKeys, rr.ret.refs) # {}
    /\ rr.ret.cons # {}

\* C8: the returned refs and cons are disjoint and neither holds the
\* starting name, on every graph, cyclic or not.
C8_DisjointWithoutStart ==
    rr.pc = "done" =>
        /\ rr.ret.refs \cap rr.ret.cons = {}
        /\ rr.starting \notin rr.ret.refs
        /\ rr.starting \notin rr.ret.cons

\* The starting name lies on a cycle that runs over a refs and a cons edge.
C8_Witness ==
    /\ rr.pc = "done"
    /\ OnCycle(rr.envs, rr.starting)
    /\ rr.ret.refs # {}
    /\ rr.ret.cons # {}
    /\ \E n \in rr.ret.cons : rr.starting \in rr.envs[n].refs \cup rr.envs[n].cons

\* C9: every call returns, and no name is appended to or popped from the
\* queue more than once, cycles included.
C9_Terminates ==
    /\ [](\A n \in Names : rr.v.enq[n] <= 1 /\ rr.v.deq[n] <= rr.v.enq[n])
    /\ [](rr.pc = "call" => <>(rr.pc = "done"))

\* A call on a graph where a refs b and b refs a has returned.
C9_Witness ==
    /\ rr.pc = "done"
    /\ \E n \in Names \ {rr.starting} :
          /\ n \in rr.envs[rr.starting].refs
          /\ rr.starting \in rr.envs[n].refs
    /\ \A n \in rr.ret.refs \cup {rr.starting} : rr.v.deq[n] = 1

Related(envs, m) == envs[m].refs \cup envs[m].cons

\* The names connected to n by edges of either kind, direction ignored,
\* n included
Neighbours(envs, S) ==
    S \cup Succ(envs, BothKeys, S)
      \cup {m \in Names : (envs[m].refs \cup envs[m].cons) \cap S # {}}

RECURSIVE Component(_, _)
Component(envs, S) ==
    LET T == Neighbours(envs, S)
    IN  IF T = S THEN S ELSE Component(envs, T)

\* C10: relation_cluster returns the undirected connected component of name,
\* after at most as many passes as there are names, and it is symmetric:
\* the cluster of a holds b iff the cluster of b holds a.
C10_ClusterIsComponent ==
    rc.pc = "done" =>
        /\ rc.ret = Component(rc.envs, {rc.name})
        /\ rc.rounds <= Cardinality(Names)
        /\ \A b \in Names : \A el \in EdgeLists(rc.envs, 1) :
              b \in rc.ret <=> rc.name \in relation_cluster(el, b)

\* A cluster of three names that took more than one growing pass, reached
\* against the direction of an edge.
C10_Witness ==
    /\ rc.pc = "done"
    /\ rc.rounds >= 3
    /\ Cardinality(rc.ret) >= 3
    /\ \E m \in rc.ret : rc.name \in Related(rc.envs, m)
    /\ rc.ret # Names

----------------------------------------------------------------------------
\* Properties of merged_packages

\* The versions, None included, that the merged environments hold for p
Held(store, names, p) ==
    {store[n][p] : n \in {m \in Range(names) : p \in DOMAIN store[m]}}

\* C4: the outcome is the same for every order of the names; a package all
\* merged environments agree on comes out with that version; two differing
\* versions of a package make the merge fail with a conflict that names the
\* package and both versions.
C4_OrderIndependent ==
    mp.pc = "done" =>
        /\ \A o \in Orders(Range(mp.names)) :
              merged_packages(python, mp.env_packages, o) = mp.ret
        /\ \A p \in Packages :
              LET held == Held(mp.env_packages, mp.names, p) \ {NoneV}
              IN  /\ (Cardinality(Held(mp.env_packages, mp.names, p)) = 1
                        /\ mp.ret.kind = "ok") =>
                        Held(mp.env_packages, mp.names, p) = {mp.ret.result[p]}
                  /\ Cardinality(held) >= 2 =>
                        /\ mp.ret.kind = "RuntimeError"
                        /\ \E e \in mp.ret.errors :
                              /\ e[1] = p
                              /\ e[2] # e[3]
                              /\ {e[2], e[3]} \subseteq held

\* C5: None is never flagged: the merge fails only if some package is held
\* in two differing versions that are both not None.
C5_NoneNeverConflicts ==
    mp.pc = "done" =>
        ((\A p \in Packages :
            Cardinality(Held(mp.env_packages, mp.names, p) \ {NoneV}) <= 1)
         => mp.ret.kind = "ok")

----------------------------------------------------------------------------
\* Properties of the deduplicator and of fix_lockfile

\* C1: once discovered, need_recompile(name) is true whenever an environment
\* among the recursive refs and cons of name has been marked recompiled.
C1_RecompileIsContagious ==
    (out.op = "need_recompile" /\ env_confs.discovered) =>
        \A relations \in Relations(env_confs, out.name) :
            (relations.refs \cup relations.cons) \cap recompiled_envs # {}
                => out.value

\* C3: once discovered, ignored_packages(name) is the merge of the
\* registered package maps of exactly the recursive refs of name.
C3_IgnoredIsMergeOfRefs ==
    (out.op = "Environment" /\ env_confs.discovered) =>
        \E relations \in Relations(env_confs, out.name) :
            \E names \in Orders(relations.refs) :
                out.ignored = merged_packages(python, env_packages, names)

\* The line pins a package that the ignore map holds in another version,
\* neither of them None
Conflicting(ignore, line) ==
    /\ line.valid
    /\ line.package \in DOMAIN ignore
    /\ ignore[line.package] # NoneV
    /\ line.version # NoneV
    /\ line.version # ignore[line.package]

\* fix_lockfile has run over the lines out'.lines
LockStep == env.alive /\ ~env'.alive /\ out'.op = "fix_lockfile"

\* C6: if a line of the lock file conflicts with the ignore map, locking
\* fails with 'Please add constraints ...' and the package store stays as it
\* was; if none does, locking succeeds and every pinned package of the
\* ignore map is left out of the written file and of the registered map.
C6_ConflictFailsElseDropped ==
    [][LockStep =>
        IF \E i \in DOMAIN out'.lines : Conflicting(env.ignore, out'.lines[i])
        THEN /\ out'.error = AddConstraints
             /\ env_packages' = env_packages
        ELSE /\ out'.error = ""
             /\ env.name \in DOMAIN env_packages'
             /\ \A i \in DOMAIN out'.lines :
                  LET line == out'.lines[i]
                  IN  (line.valid /\ line.package \in DOMAIN env.ignore) =>
                        /\ line \notin Range(out'.written)
                        /\ line.package \notin DOMAIN env_packages'[env.name]]_vars

\* base was locked against the packages of refs and cons: its first
\* requirement was kept, its second conflicts, and nothing was registered.
C6_Witness ==
    /\ out.op = "fix_lockfile"
    /\ out.error = AddConstraints
    /\ env_confs.discovered
    /\ env.name = "base"
    /\ env.name \notin DOMAIN env_packages
    /\ env.packages # EmptyMap
    /\ \E i \in DOMAIN out.lines : Conflicting(env.ignore, out.lines[i])

=============================================================================
